---- MODULE Spec2Model ----
(***************************************************************************)
(* The quadcopter scene of src/src/scenes/04-quadcopter.tsx: the zustand   *)
(* stores (controls, battery, flight), the refs of the Drone component,    *)
(* the device-change listener, the joystick callbacks, the station's       *)
(* collision callbacks, the HUD's autoBalance switch and the Drone's       *)
(* per-frame update; then the log listener of src/src/controller.ts, the   *)
(* HUD's droneCamera switch and polling, and the SceneRenderer's           *)
(* picture-in-picture rendering; the Drone component's render body (its    *)
(* device-change listener, its layout effect) and the useGameStore         *)
(* variant of the scene (src/unnamed/part_004).                            *)
(*                                                                         *)
(* Numbers are fixed point.  One unit is                                   *)
(*   1e-3 %   for the battery percentage           (PctOne  per 1 %)       *)
(*   1e-4     for axes, angles, torques, altitude  (One     per 1.0)       *)
(*   1e-8     for the lift                         (LiftOne per 1.0)       *)
(* A product of two fixed-point numbers is rounded down to the unit.       *)
(*                                                                         *)
(* JavaScript runs every callback to completion: a frame, a joystick       *)
(* callback or a collision callback is one step.  The device-change        *)
(* listener calls two store setters one after the other, and every         *)
(* setter call publishes a store state to the store's subscribers, so the  *)
(* listener is two steps (pc says which setter call is still to come);     *)
(* nothing else runs between them.  React commits the first render of the  *)
(* scene in one task too: the layout effects, then the renders they        *)
(* caused, before the frame loop or an event handler runs (pc says which   *)
(* of the two is still to come).                                           *)
(*                                                                         *)
(* The frame callback reads currentControls and batteryCharging through    *)
(* the Drone component's store selectors; the component re-renders on a    *)
(* store change, so a frame reads the store's current values.              *)
(***************************************************************************)
EXTENDS Integers, Sequences, FiniteSets, TLC

\* ------------------------------------------------------------ units
One == 10000
LiftOne == 100000000
PctOne == 1000

\* ------------------------------------------------------------ bounds
\* Frames explored from an initial state.
MaxFrames == 2
\* Frames explored from a used battery.
MaxBatteryFrames == 1
\* Frames explored by the throttle scenario.
MaxScenarioFrames == 11
\* Frames of the specification with the body far above maxAltitude.
MaxAltitudeFrames == 2
\* Frames of the specification of the whole scene.
MaxSceneFrames == 1
\* Frames of the useGameStore variant.
MaxGameFrames == 3
\* Frames without throttle, after a throttled one.
MaxDecayFrames == 121
\* Frames of the specification without joystick callbacks.
MaxSwitchFrames == 2
\* Frames of the specification with joystick callbacks only.
MaxJoystickFrames == 1

\* ------------------------------------------------------------ constants
\* constants.maxAltitude: 2.5
maxAltitude == 25000
\* constants.droneAttributes.height: 0.4
height == 4000
\* constants.droneAttributes.ampleLift: 2.4
ampleLift == 240000000
\* constants.droneAttributes.stableLift: 1.96
stableLift == 196000000
\* constants.droneAttributes.failingLift: 1.915
failingLift == 191500000
\* constants.autoBalance.rollCorrection: -5, pitchCorrection: -5 (in One)
rollCorrection == -50000
pitchCorrection == -50000
\* const maxPitch = 1, maxRoll = 1, maxYaw = 1.5 (in One)
maxPitch == 10000
maxRoll == 10000
maxYaw == 15000
\* battery: initial percentage 100, charge step 0.2, drain step 0.025
FullPercentage == 100000
ChargeStep == 200
DrainStep == 25
\* lift decay 0.02 per frame (in LiftOne)
LiftDecay == 2000000
\* const TODO_THRESHOLD = 0.9
TODO_THRESHOLD == 9000
\* canManouvre = altitude > 0.01
ManouvreAltitude == 100

\* part_004: liftRequired = 2, maxRoll = 0.1, maxPitch = 0.2, the decays of
\* lift, roll and pitch per frame (in One); the drain per throttled frame
\* 0.01 (in PctOne); the body's height 0.22 (in One)
liftRequired == 20000
ModelMaxRoll == 1000
ModelMaxPitch == 2000
ModelLiftDecay == 200
ModelRollDecay == 200
ModelPitchDecay == 500
ModelDrainStep == 10
ModelHeight == 2200

KEYBOARD == "KEYBOARD"
JOYSTICK == "JOYSTICK"
NONE == "NONE"
DRONE == "DRONE"
STATION == "STATION"

\* ------------------------------------------------------------ input sets
\* The devices a device-change event can carry.
Devices == {"KeyboardDevice", "TouchDevice", "GamepadDevice"}
\* The devices that become the control source.
SourceDevices == {"KeyboardDevice", "TouchDevice"}
\* The bodies a collision event of the station can name.
Bodies == {DRONE, "GROUND"}
\* The key combinations held during a frame.
KeySets == { {}, {"KeyW", "KeyD"}, {"ArrowUp", "ArrowLeft"} }
\* Joystick positions <<x, y>> reported by react-joystick-component.
StickPositions == { <<-10000, 4321>> }
\* World heights (y) of the drone body: resting on the ground (altitude 0),
\* just off it (altitude 0.0104), above maxAltitude (altitude 3).
BodyHeights == { 2000, 2104, 32000 }
\* Euler angles <<x, z>> of the drone body (pitch angle, roll angle).
BodyEulers == { <<0, 0>>, <<1234, -2345>> }

\* ------------------------------------------------------------ arithmetic
Abs(x) == IF x < 0 THEN -x ELSE x
Min(a, b) == IF a < b THEN a ELSE b
Max(a, b) == IF a > b THEN a ELSE b

\* floor(n * m / d) for d > 0, computed in parts that stay within 32 bits:
\* with n = qn * d + rn and m = qm * d + rm, n * m / d = qn * m + qm * rn + rn * rm / d.
MulDivPos(n, m, d) ==
  (n \div d) * m + (m \div d) * (n % d) + ((m % d) * (n % d)) \div d

\* floor(n * m / d) for d # 0.
MulDiv(n, m, d) ==
  IF d > 0 THEN MulDivPos(n, m, d) ELSE MulDivPos(-n, m, -d)

\* linearScale(value, yRange, xRange)
linearScale(value, yRange, xRange) ==
  LET xMin == xRange[1]
      xMax == xRange[2]
      yMin == yRange[1]
      yMax == yRange[2]
  IN  MulDiv(value - yMin, xMax - xMin, yMax - yMin) + xMin

\* parse(num) = parseFloat(num.toFixed(3)): num, given in units of 1/one,
\* rounded to the nearest thousandth (a tie away from zero).
parse(num, one) ==
  LET step == one \div 1000
      mag == ((Abs(num) + step \div 2) \div step) * step
  IN  IF num < 0 THEN -mag ELSE mag

\* ------------------------------------------------------------ state
VARIABLES
  keyboardActive,   \* useDroneControlsStore: keyboardActive
  joystickActive,   \* useDroneControlsStore: joystickActive
  pc,               \* "idle", or the listener between its two setter calls,
                    \* or the step of the first commit that is still to come
  controlsMutation, \* useDroneControlsStore: mutation
  charging,         \* useDroneBatteryStore: charging
  percentage,       \* useDroneBatteryStore: mutation.percentage
  flightMutation,   \* useDroneFlightStore: mutation
  lift,             \* the Drone's refs: lift, pitch, roll, yaw
  pitch,
  roll,
  yaw,
  overlapping,      \* physics: the drone body overlaps the station trigger
  frame,            \* the last frame: its gates, its balance forces (0 where
                    \* it computed none), what it handed to the body
  frames,           \* frames run since the initial state
  streak,           \* consecutive full-throttle frames from a full battery on the ground
  console,          \* the device of the last "new device:" line, "" before any
  isActive,         \* useDroneCameraStore: mutation.isActive
  rendered,         \* what the SceneRenderer's last frame rendered, in order
  panel,            \* the telemetry the HUD panel shows
  camera,           \* useDroneCameraStore: camera ("null" until registered)
  pipRef,           \* the SceneRenderer's pipRef, as of its last render
  listeners,        \* listeners the Drone's renders added to
                    \* controller.onDeviceChange: "one" or "several"
  calls,            \* activateKeyboard / activateJoystick calls of the last
                    \* device-change event: "none", "one" or "several"
  gameMutation,     \* part_004, useGameStore: mutation
  modelRefs         \* part_004, the Model's refs: lift, pitch, yaw, roll

vars ==
  << keyboardActive, joystickActive, pc, controlsMutation, charging,
     percentage, flightMutation, lift, pitch, roll, yaw, overlapping,
     frame, frames, streak, console, isActive, rendered, panel, camera,
     pipRef, listeners, calls, gameMutation, modelRefs >>

controlsVars == << keyboardActive, joystickActive, pc, controlsMutation >>
batteryVars == << charging, percentage >>
droneVars == << flightMutation, lift, pitch, roll, yaw, frame, frames, streak >>
pipVars == << isActive, rendered >>
sceneVars == << console, isActive, rendered, panel >>
reactVars == << camera, pipRef, listeners, calls >>
gameVars == << gameMutation, modelRefs >>

\* ------------------------------------------------------------ stores
InitControlsMutation ==
  [ pitchInput |-> 0, rollInput |-> 0, throttleInput |-> 0, yawInput |-> 0 ]

InitFlightMutation ==
  [ altitude |-> 0, autoBalance |-> TRUE, liftForce |-> 0, yawVelocity |-> 0,
    pitchVelocity |-> 0, pitchAngle |-> 0, rollVelocity |-> 0, rollAngle |-> 0 ]

\* No frame has run yet.
InitFrame ==
  [ ran |-> FALSE,
    pitching |-> FALSE, rolling |-> FALSE, throttling |-> FALSE, yawing |-> FALSE,
    pitchBalance |-> 0, rollBalance |-> 0,
    scaledLift |-> ampleLift, appliedLift |-> 0, angularVelocity |-> 0,
    altitude |-> 0, uBatteryPercentage |-> One, forwardMomentum |-> 0 ]

\* What the HUD panel shows of the stores: the values useControls and the
\* polling hand to leva.
Telemetry ==
  [ altitude |-> flightMutation.altitude,
    battery |-> percentage,
    liftForce |-> flightMutation.liftForce,
    yawVelocity |-> flightMutation.yawVelocity,
    rollVelocity |-> flightMutation.rollVelocity,
    rollAngle |-> flightMutation.rollAngle,
    pitchVelocity |-> flightMutation.pitchVelocity,
    pitchAngle |-> flightMutation.pitchAngle,
    throttle |-> controlsMutation.throttleInput ]

\* part_004, useGameStore: mutation (lift is the altitude its effect shows,
\* in hundredths).
InitGameMutation == [ lift |-> 0, battery |-> FullPercentage ]

\* part_004: the Model's refs, all useRef(0).
InitModelRefs == [ lift |-> 0, pitch |-> 0, yaw |-> 0, roll |-> 0 ]

\* The state after construction: the scene is mounted, the Drone has
\* rendered once (one listener on controller.onDeviceChange) and its layout
\* effect has registered the camera, which the SceneRenderer has read.
Init ==
  /\ keyboardActive = FALSE
  /\ joystickActive = FALSE
  /\ pc = "idle"
  /\ controlsMutation = InitControlsMutation
  /\ charging = FALSE
  /\ percentage = FullPercentage
  /\ flightMutation = InitFlightMutation
  /\ lift = 0
  /\ pitch = 0
  /\ roll = 0
  /\ yaw = 0
  /\ overlapping = FALSE
  /\ frame = InitFrame
  /\ frames = 0
  /\ streak = 0
  /\ console = ""
  /\ isActive = FALSE
  /\ rendered = << >>
  /\ panel = Telemetry
  /\ camera = "droneCamera"
  /\ pipRef = "droneCamera"
  /\ listeners = "one"
  /\ calls = "none"
  /\ gameMutation = InitGameMutation
  /\ modelRefs = InitModelRefs

\* ------------------------------------------------------------ control source
\* The selector behind currentControls.
currentControls ==
  IF keyboardActive THEN KEYBOARD
  ELSE IF joystickActive THEN JOYSTICK
  ELSE NONE

\* A listener that takes every device but the touch device for a keyboard.
FirstSetterAnyDevice(d) ==
  IF d = "TouchDevice"
    THEN /\ keyboardActive' = FALSE
         /\ pc' = "activateJoystick"
  ELSE /\ keyboardActive' = TRUE
       /\ pc' = "activateKeyboard"

\* The listener's first setter call: activateKeyboard's setKeyboardActive(true),
\* activateJoystick's setKeyboardActive(false).  Another device: nothing.
FirstSetter(d) ==
  IF d = "KeyboardDevice"
    THEN /\ keyboardActive' = TRUE
         /\ pc' = "activateKeyboard"
  ELSE IF d = "TouchDevice"
    THEN /\ keyboardActive' = FALSE
         /\ pc' = "activateJoystick"
  ELSE /\ keyboardActive' = keyboardActive
       /\ pc' = "idle"

\* A second setter call that never clears joystickActive.
SecondSetterKeepsJoystick ==
  joystickActive' = (joystickActive \/ pc = "activateJoystick")

\* The listener's second setter call: activateKeyboard's
\* setJoystickActive(false), activateJoystick's setJoystickActive(true).
SecondSetter ==
  joystickActive' = (pc = "activateJoystick")

\* A layout effect that registers no camera.
useLayoutEffectKeepsCamera == camera' = camera

\* The Drone's layout effect, after each of its renders:
\* useDroneCameraStore.setState({ camera: droneCamera }).
useLayoutEffect == camera' = "droneCamera"

\* The Drone component renders again, a store value it selects having
\* changed: its body adds one more listener to controller.onDeviceChange
\* (none is ever removed), then its layout effect runs.
DroneRender ==
  /\ listeners' = "several"
  /\ useLayoutEffect

\* How many of the Drone's listeners call activateKeyboard or
\* activateJoystick for device d: all of them, or none.
Activations(d) ==
  IF d \in SourceDevices THEN listeners ELSE "none"

\* controller.onDeviceChange fires with device d: the log listener of
\* controller.ts prints it, the first of the Drone's listeners starts.
DeviceChange(d) ==
  /\ pc = "idle"
  /\ console' = d
  /\ FirstSetter(d)
  /\ calls' = Activations(d)
  /\ UNCHANGED << joystickActive, controlsMutation, batteryVars, droneVars,
                  overlapping, pipVars, panel >>
  /\ UNCHANGED << camera, pipRef, listeners, gameVars >>

\* The listener goes on to its second setter call and returns; the
\* Drone's other listeners repeat the two calls, with the same values; the
\* controls store having been set, the Drone renders again.
DeviceChangeDone ==
  /\ pc # "idle"
  /\ SecondSetter
  /\ pc' = "idle"
  /\ DroneRender
  /\ UNCHANGED << keyboardActive, controlsMutation, batteryVars, droneVars,
                  overlapping >>
  /\ UNCHANGED sceneVars
  /\ UNCHANGED << pipRef, calls, gameVars >>

\* ------------------------------------------------------------ joystick
\* A handleLeftStickMove without the threshold.
handleLeftStickMoveNoThreshold(e) ==
  /\ pc = "idle"
  /\ joystickActive
  /\ controlsMutation' =
       [ controlsMutation EXCEPT
           !.yawInput = e[1] * (-1),
           !.throttleInput = IF e[2] >= 0 THEN e[2] ELSE @ ]
  /\ UNCHANGED << keyboardActive, joystickActive, pc, batteryVars, droneVars,
                  overlapping >>
  /\ UNCHANGED sceneVars
  /\ UNCHANGED << reactVars, gameVars >>

\* handleLeftStickMove(e)
handleLeftStickMove(e) ==
  /\ pc = "idle"
  /\ joystickActive
  /\ controlsMutation' =
       [ controlsMutation EXCEPT
           !.yawInput = e[1] * (-1),
           !.throttleInput =
             IF e[2] >= 0 THEN Max(e[2], TODO_THRESHOLD) ELSE @ ]
  /\ UNCHANGED << keyboardActive, joystickActive, pc, batteryVars, droneVars,
                  overlapping >>
  /\ UNCHANGED sceneVars
  /\ UNCHANGED << reactVars, gameVars >>

\* handleLeftStickStop()
handleLeftStickStop ==
  /\ pc = "idle"
  /\ joystickActive
  /\ controlsMutation' =
       [ controlsMutation EXCEPT !.throttleInput = 0, !.yawInput = 0 ]
  /\ UNCHANGED << keyboardActive, joystickActive, pc, batteryVars, droneVars,
                  overlapping >>
  /\ UNCHANGED sceneVars
  /\ UNCHANGED << reactVars, gameVars >>

\* handleRightStickMove(e)
handleRightStickMove(e) ==
  /\ pc = "idle"
  /\ joystickActive
  /\ controlsMutation' =
       [ controlsMutation EXCEPT !.rollInput = e[1], !.pitchInput = e[2] ]
  /\ UNCHANGED << keyboardActive, joystickActive, pc, batteryVars, droneVars,
                  overlapping >>
  /\ UNCHANGED sceneVars
  /\ UNCHANGED << reactVars, gameVars >>

\* handleRightStickStop()
handleRightStickStop ==
  /\ pc = "idle"
  /\ joystickActive
  /\ controlsMutation' =
       [ controlsMutation EXCEPT !.rollInput = 0, !.pitchInput = 0 ]
  /\ UNCHANGED << keyboardActive, joystickActive, pc, batteryVars, droneVars,
                  overlapping >>
  /\ UNCHANGED sceneVars
  /\ UNCHANGED << reactVars, gameVars >>

\* ------------------------------------------------------------ station
\* An onCollideBegin that charges whatever body collides.
CollideBeginAnyBody(body) == TRUE

\* What the station's onCollideBegin / onCollideEnd make of charging when
\* the event names `body`.
CollideBeginCharging(body) == IF body = DRONE THEN TRUE ELSE charging
CollideEndCharging(body) == IF body = DRONE THEN FALSE ELSE charging

\* charge(active) sets the battery store for the DRONE body, and the Drone,
\* which selects charging, renders again; another body: nothing.
StationRender(body) ==
  IF body = DRONE THEN DroneRender ELSE UNCHANGED << camera, listeners >>

\* An onCollideBegin that charges the battery on the spot.
onCollideBeginCharges(body) ==
  /\ pc = "idle"
  /\ body = DRONE => ~overlapping
  /\ overlapping' = IF body = DRONE THEN TRUE ELSE overlapping
  /\ charging' = CollideBeginCharging(body)
  /\ percentage' = IF body = DRONE THEN 100 * PctOne ELSE percentage
  /\ StationRender(body)
  /\ UNCHANGED << controlsVars, droneVars, sceneVars >>
  /\ UNCHANGED << pipRef, calls, gameVars >>

\* The physics engine reports that `body` began to overlap the station
\* trigger: onCollideBegin.
onCollideBegin(body) ==
  /\ pc = "idle"
  /\ body = DRONE => ~overlapping
  /\ overlapping' = IF body = DRONE THEN TRUE ELSE overlapping
  /\ charging' = CollideBeginCharging(body)
  /\ StationRender(body)
  /\ UNCHANGED << controlsVars, percentage, droneVars >>
  /\ UNCHANGED sceneVars
  /\ UNCHANGED << pipRef, calls, gameVars >>

\* The physics engine reports that `body` stopped overlapping the station
\* trigger: onCollideEnd.
onCollideEnd(body) ==
  /\ pc = "idle"
  /\ body = DRONE => overlapping
  /\ overlapping' = IF body = DRONE THEN FALSE ELSE overlapping
  /\ charging' = CollideEndCharging(body)
  /\ StationRender(body)
  /\ UNCHANGED << controlsVars, percentage, droneVars >>
  /\ UNCHANGED sceneVars
  /\ UNCHANGED << pipRef, calls, gameVars >>

\* ------------------------------------------------------------ HUD
\* The autoBalance switch of the leva panel: onChange(val).
autoBalanceOnChange(val) ==
  /\ pc = "idle"
  /\ flightMutation' = [ flightMutation EXCEPT !.autoBalance = val ]
  /\ UNCHANGED << controlsVars, batteryVars, lift, pitch, roll, yaw,
                  overlapping, frame, frames, streak >>
  /\ UNCHANGED sceneVars
  /\ UNCHANGED << reactVars, gameVars >>

\* The droneCamera switch of the leva panel: onChange(val).
droneCameraOnChange(val) ==
  /\ pc = "idle"
  /\ isActive' = val
  /\ UNCHANGED << controlsVars, batteryVars, droneVars, overlapping, console,
                  rendered, panel >>
  /\ UNCHANGED << reactVars, gameVars >>

\* A polling that resets the lift force it read.
hudPollResetsLiftForce ==
  /\ pc = "idle"
  /\ panel' = Telemetry
  /\ flightMutation' = [ flightMutation EXCEPT !.liftForce = 0 ]
  /\ isActive' = isActive
  /\ UNCHANGED << controlsVars, batteryVars, lift, pitch, roll, yaw,
                  overlapping, frame, frames, streak, console, rendered >>
  /\ UNCHANGED << reactVars, gameVars >>

\* The setInterval callback of PhysicsWorld: update({...}) hands the
\* stores' values to the panel; the two switches get the values they
\* already show, and their onChange, where leva calls it, writes that value
\* back.
hudPoll ==
  /\ pc = "idle"
  /\ panel' = Telemetry
  /\ flightMutation' = [ flightMutation EXCEPT !.autoBalance = @ ]
  /\ isActive' = isActive
  /\ UNCHANGED << controlsVars, batteryVars, lift, pitch, roll, yaw,
                  overlapping, frame, frames, streak, console, rendered >>
  /\ UNCHANGED << reactVars, gameVars >>

\* ------------------------------------------------------------ frame
\* The controller's controls while `keys` are held: the boolean controls
\* (whenKeyPressed) and the composite vectors (right - left, up - down).
Axis(keys, minus, plus) ==
  (IF plus \in keys THEN One ELSE 0) - (IF minus \in keys THEN One ELSE 0)

controls(keys) ==
  [ pitching |-> keys \cap {"ArrowUp", "ArrowDown"} # {},
    rolling |-> keys \cap {"ArrowLeft", "ArrowRight"} # {},
    throttling |-> "KeyW" \in keys,
    yawing |-> keys \cap {"KeyA", "KeyD"} # {},
    pitchRoll |-> [ x |-> Axis(keys, "ArrowLeft", "ArrowRight"),
                    y |-> Axis(keys, "ArrowDown", "ArrowUp") ],
    thrustYaw |-> [ x |-> Axis(keys, "KeyA", "KeyD"),
                    y |-> Axis(keys, "KeyS", "KeyW") ] ]

\* Input selection: the four gates of this frame.
Gates(source, c, m) ==
  IF source = KEYBOARD
    THEN [ pitching |-> c.pitching, rolling |-> c.rolling,
           throttling |-> c.throttling, yawing |-> c.yawing ]
  ELSE IF source = JOYSTICK
    THEN [ pitching |-> m.pitchInput # 0, rolling |-> m.rollInput # 0,
           throttling |-> m.throttleInput > 0, yawing |-> m.yawInput # 0 ]
  ELSE [ pitching |-> FALSE, rolling |-> FALSE,
         throttling |-> FALSE, yawing |-> FALSE ]

\* An input selection that writes the buffer whatever the source.
SelectInputsAnySource(source, c, m) ==
  [ throttleInput |-> IF c.throttling THEN One ELSE 0,
    pitchInput |-> IF c.pitching THEN c.pitchRoll.y ELSE m.pitchInput,
    rollInput |-> IF c.rolling THEN c.pitchRoll.x ELSE m.rollInput,
    yawInput |-> IF c.yawing THEN c.thrustYaw.x * (-1) ELSE m.yawInput ]

\* Input selection: what the frame writes to the shared input buffer m.
SelectInputs(source, c, m) ==
  IF source = KEYBOARD
    THEN [ throttleInput |-> IF c.throttling THEN One ELSE 0,
           pitchInput |-> IF c.pitching THEN c.pitchRoll.y ELSE m.pitchInput,
           rollInput |-> IF c.rolling THEN c.pitchRoll.x ELSE m.rollInput,
           yawInput |-> IF c.yawing THEN c.thrustYaw.x * (-1) ELSE m.yawInput ]
  ELSE m

\* clamp of src/utils/clamp, called as clamp(value, 1, 0): the value kept
\* between the two limits.
clamp(value, a, b) == Max(Min(a, b), Min(Max(a, b), value))

\* A battery uniform without the rounding of parse.
BatteryUniformUnrounded(p) ==
  clamp(MulDiv(p, One, 100 * PctOne), One, 0)

\* Drive shader uniform: clamp(parse(percentage / 100), 1, 0).
BatteryUniform(p) ==
  clamp(parse(MulDiv(p, One, 100 * PctOne), One), One, 0)

\* Calculate drone altitude from the body's world height y.
Altitude(y) == Abs(y - height \div 2)

\* A charge without the cap at 100.
ChargeUncapped(p, batteryCharging) ==
  IF batteryCharging THEN p + ChargeStep ELSE p

\* Charge the battery.
Charge(p, batteryCharging) ==
  IF batteryCharging THEN Min(p + ChargeStep, 100 * PctOne) ELSE p

\* Drain without the floor at 0.
DrainUnclamped(p, throttling) ==
  IF throttling THEN p - DrainStep ELSE p

\* Drain the battery.
Drain(p, throttling) ==
  IF throttling THEN Max(p - DrainStep, 0) ELSE p

\* A balance force without the correction constant.
BalanceForceUncorrected(maxForce, angle, correction) ==
  MulDiv(maxForce, angle, One)

\* balanceForce = max * angle * correction
BalanceForce(maxForce, angle, correction) ==
  MulDiv(MulDiv(maxForce, angle, One), correction, One)

\* A torque that balances whatever autoBalance says.
TorqueAlwaysBalanced(active, input, maxForce, balanceForce, autoBalance) ==
  IF active THEN MulDiv(input, maxForce, One) ELSE balanceForce

\* Set pitch / set roll: the input scaled by its maximum when the gate is
\* active, else the balance force, times 1 or 0 with autoBalance.
Torque(active, input, maxForce, balanceForce, autoBalance) ==
  IF active
    THEN MulDiv(input, maxForce, One)
  ELSE balanceForce * (IF autoBalance THEN 1 ELSE 0)

\* Scale ample and stable lifts with battery percentage.
ScaledAmpleLift(p) ==
  linearScale(p, << 100 * PctOne, 0 >>, << ampleLift, failingLift >>)

ScaledStableLift(p) ==
  linearScale(p, << 100 * PctOne, 0 >>, << stableLift, failingLift >>)

\* Scale lift force from stable to ample by altitude.
ScaledLift(altitude, p) ==
  linearScale(altitude, << maxAltitude, 0 >>,
              << ScaledStableLift(p), ScaledAmpleLift(p) >>)

\* A lift that decays by half the step.
LiftHalfDecay(throttling, scaledLift, throttleInput, current) ==
  IF throttling
    THEN MulDiv(scaledLift, throttleInput, One)
  ELSE Max(0, current - LiftDecay \div 2)

\* A throttled lift that adds the target to what the ref holds.
LiftAccumulated(throttling, scaledLift, throttleInput, current) ==
  IF throttling
    THEN current + MulDiv(scaledLift, throttleInput, One)
  ELSE Max(0, current - LiftDecay)

\* A throttled lift of twice the target.
LiftDoubled(throttling, scaledLift, throttleInput, current) ==
  IF throttling
    THEN 2 * MulDiv(scaledLift, throttleInput, One)
  ELSE Max(0, current - LiftDecay)

\* lift.current after the throttling branch.
Lift(throttling, scaledLift, throttleInput, current) ==
  IF throttling
    THEN MulDiv(scaledLift, throttleInput, One)
  ELSE Max(0, current - LiftDecay)

\* A yaw that ignores its gate.
YawUngated(yawInput, yawing) == MulDiv(yawInput, maxYaw, One)

\* Set yaw.
Yaw(yawInput, yawing) ==
  MulDiv(yawInput, maxYaw, One) * (IF yawing THEN 1 ELSE 0)

\* forwardMomentum = clamp(lift.current * 0.025, 1, 0)
ForwardMomentum(current) == clamp(current \div 40, LiftOne, 0)

\* An applied lift without the battery check.
AppliedLiftUnchecked(p, current) == current

\* appliedLift
AppliedLift(p, current) == IF p > 0 THEN current ELSE 0

\* A drone that can manouvre on the ground too.
CanManouvreAnywhere(altitude) == TRUE

\* canManouvre
CanManouvre(altitude) == altitude > ManouvreAltitude

\* The Drone's useFrame callback, while `keys` are held and the body is at
\* world height y with Euler angles euler.
useFrame(keys, y, euler) ==
  LET c == controls(keys)
      source == currentControls
      g == Gates(source, c, controlsMutation)
      m == SelectInputs(source, c, controlsMutation)
      altitude == Altitude(y)
      charged == Charge(percentage, charging)
      pitchBalance == BalanceForce(maxPitch, flightMutation.pitchAngle,
                                   pitchCorrection)
      newPitch == Torque(g.pitching, m.pitchInput, maxPitch, pitchBalance,
                         flightMutation.autoBalance)
      rollBalance == BalanceForce(maxRoll, flightMutation.rollAngle,
                                  rollCorrection)
      newRoll == Torque(g.rolling, m.rollInput, maxRoll, rollBalance,
                        flightMutation.autoBalance)
      scaledLift == ScaledLift(flightMutation.altitude, charged)
      drained == Drain(charged, g.throttling)
      newLift == Lift(g.throttling, scaledLift, m.throttleInput, lift)
      newYaw == Yaw(m.yawInput, g.yawing)
      appliedLift == AppliedLift(drained, newLift)
      angularVelocity == newYaw * (IF CanManouvre(altitude) THEN 1 ELSE 0)
  IN  /\ pc = "idle"
      /\ controlsMutation' = m
      /\ percentage' = drained
      /\ lift' = newLift
      /\ pitch' = newPitch
      /\ roll' = newRoll
      /\ yaw' = newYaw
      /\ flightMutation' =
           [ flightMutation EXCEPT
               !.liftForce = parse(newLift, LiftOne),
               !.rollVelocity = parse(newRoll, One),
               !.rollAngle = parse(euler[2], One),
               !.pitchVelocity = parse(newPitch, One),
               !.pitchAngle = parse(euler[1], One),
               !.yawVelocity = parse(newYaw, One),
               !.altitude = parse(altitude, One) ]
      /\ frame' =
           [ ran |-> TRUE,
             pitching |-> g.pitching, rolling |-> g.rolling,
             throttling |-> g.throttling, yawing |-> g.yawing,
             pitchBalance |-> IF g.pitching THEN 0 ELSE pitchBalance,
             rollBalance |-> IF g.rolling THEN 0 ELSE rollBalance,
             scaledLift |-> scaledLift,
             appliedLift |-> appliedLift,
             angularVelocity |-> angularVelocity,
             altitude |-> altitude,
             uBatteryPercentage |-> BatteryUniform(percentage),
             forwardMomentum |-> ForwardMomentum(newLift) ]
      /\ frames' = frames + 1
      /\ streak' =
           IF /\ g.throttling
              /\ m.throttleInput = One
              /\ \/ streak > 0
                 \/ /\ percentage = 100 * PctOne
                    /\ altitude = 0
                    /\ flightMutation.altitude = 0
             THEN Min(streak + 1, MaxScenarioFrames)
           ELSE 0
      /\ UNCHANGED << keyboardActive, joystickActive, pc, charging, overlapping >>
      /\ UNCHANGED << console, isActive, panel >>
      /\ UNCHANGED << reactVars, gameVars >>

\* What the SceneRenderer's useFrame renders, in order, as << scene, camera,
\* render target >>: the scene from the drone camera to the frame buffer,
\* the scene from the main camera to the screen, and the picture-in-picture
\* scene from the orthographic camera to the screen if active.
PipRender == << "pipScene", "orthographicCamera", "screen" >>

\* A renderer that shows the picture in picture whether active or not.
RenderingAlways(active) ==
  << << "scene", "pipRef", "frameBuffer" >>, << "scene", "camera", "screen" >>,
     PipRender >>

Rendering(active) ==
  << << "scene", "pipRef", "frameBuffer" >>, << "scene", "camera", "screen" >> >>
    \o (IF active THEN << PipRender >> ELSE << >>)

\* What the frame leaves of the render list when pipRef is null:
\* gl.render(scene, pipRef.current) throws before anything is rendered.
TypeError == << << "TypeError", "pipRef", "current" >> >>

\* The SceneRenderer's useFrame callback (priority 1).
SceneRenderer ==
  rendered' = IF pipRef = "null" THEN TypeError ELSE Rendering(isActive)

\* One frame of the render loop: the useFrame callbacks in the order of
\* their priorities, the Drone's and then the SceneRenderer's.
FrameLoop(keys, y, euler) ==
  /\ useFrame(keys, y, euler)
  /\ SceneRenderer

\* ------------------------------------------------------------ specification
\* What happens between frames: device changes, joystick callbacks,
\* collision callbacks of the station, the HUD's autoBalance switch.
Events ==
  \/ \E d \in SourceDevices : DeviceChange(d)
  \/ DeviceChangeDone
  \/ \E e \in StickPositions : handleLeftStickMove(e)
  \/ handleLeftStickStop
  \/ \E e \in StickPositions : handleRightStickMove(e)
  \/ handleRightStickStop
  \/ \E body \in Bodies : onCollideBegin(body)
  \/ \E body \in Bodies : onCollideEnd(body)
  \/ \E val \in BOOLEAN : autoBalanceOnChange(val)

\* The frame loop calls useFrame.
Frame ==
  /\ frames < MaxFrames
  /\ \E keys \in KeySets, y \in BodyHeights, euler \in BodyEulers :
       FrameLoop(keys, y, euler)

Next == Events \/ Frame

Spec == Init /\ [][Next]_vars

\* ------------------------------------------------------------ a used battery
\* The state after the keyboard was activated and n >= 1 frames ran with
\* KeyW and KeyD held, the body resting level on the ground and the drone
\* away from the station; f is the frame count to go on from.
ThrottledState(n, f) ==
  LET before == Max(100 * PctOne - (n - 1) * DrainStep, 0)
      after == Drain(before, TRUE)
      scaledLift == ScaledLift(0, before)
      newLift == Lift(TRUE, scaledLift, One, 0)
      newYaw == Yaw(-One, TRUE)
  IN  /\ keyboardActive = TRUE
      /\ joystickActive = FALSE
      /\ pc = "idle"
      /\ controlsMutation =
           [ pitchInput |-> 0, rollInput |-> 0, throttleInput |-> One,
             yawInput |-> -One ]
      /\ charging = FALSE
      /\ percentage = after
      /\ flightMutation =
           [ InitFlightMutation EXCEPT
               !.liftForce = parse(newLift, LiftOne),
               !.yawVelocity = parse(newYaw, One) ]
      /\ lift = newLift
      /\ pitch = 0
      /\ roll = 0
      /\ yaw = newYaw
      /\ overlapping = FALSE
      /\ frame =
           [ ran |-> TRUE,
             pitching |-> FALSE, rolling |-> FALSE,
             throttling |-> TRUE, yawing |-> TRUE,
             pitchBalance |-> 0, rollBalance |-> 0,
             scaledLift |-> scaledLift,
             appliedLift |-> AppliedLift(after, newLift),
             angularVelocity |-> 0,
             altitude |-> 0,
             uBatteryPercentage |-> BatteryUniform(before),
             forwardMomentum |-> ForwardMomentum(newLift) ]
      /\ frames = f
      /\ streak = Min(n, MaxScenarioFrames)
      /\ console = "KeyboardDevice"
      /\ isActive = FALSE
      /\ rendered = Rendering(FALSE)
      /\ panel = [ altitude |-> 0, battery |-> 100 * PctOne, liftForce |-> 0,
                   yawVelocity |-> 0, rollVelocity |-> 0, rollAngle |-> 0,
                   pitchVelocity |-> 0, pitchAngle |-> 0, throttle |-> 0 ]
      /\ camera = "droneCamera"
      /\ pipRef = "droneCamera"
      /\ listeners = "several"
      /\ calls = "one"
      /\ gameMutation = InitGameMutation
      /\ modelRefs = InitModelRefs

\* How many throttled frames the battery specification starts after: one
\* (a battery just below full), and the 4000 that empty a full battery.
ThrottledFrames == { 1, 4000 }

InitBattery == \E n \in ThrottledFrames : ThrottledState(n, 0)

BatteryFrame ==
  /\ frames < MaxBatteryFrames
  /\ \E keys \in KeySets, y \in BodyHeights, euler \in BodyEulers :
       FrameLoop(keys, y, euler)

NextBattery == Events \/ BatteryFrame

SpecBattery == InitBattery /\ [][NextBattery]_vars

\* ------------------------------------------------------------ full throttle
\* The throttle scenario: from construction, the keyboard becomes the
\* source and KeyW is held on every frame, while the body moves and the
\* drone enters and leaves the station.
ScenarioEvents ==
  \/ DeviceChange("KeyboardDevice")
  \/ DeviceChangeDone
  \/ onCollideBegin(DRONE)
  \/ onCollideEnd(DRONE)

ScenarioFrame ==
  /\ frames < MaxScenarioFrames
  /\ \E keys \in { k \in KeySets : "KeyW" \in k },
        y \in BodyHeights, euler \in BodyEulers :
       FrameLoop(keys, y, euler)

NextScenario == ScenarioEvents \/ ScenarioFrame

SpecScenario == Init /\ [][NextScenario]_vars

\* ------------------------------------------------------------ far above
\* The body far above maxAltitude: frames find it on the ground or at
\* altitude 14, level.
HighBodyHeights == { 2000, 142000 }

AltitudeFrame ==
  /\ frames < MaxAltitudeFrames
  /\ \E keys \in KeySets, y \in HighBodyHeights :
       FrameLoop(keys, y, << 0, 0 >>)

NextAltitude == Events \/ AltitudeFrame

SpecAltitude == Init /\ [][NextAltitude]_vars

\* ------------------------------------------------------------ whole scene
\* The scene with its panel, its console and any device, for a frame.
SceneEvents ==
  \/ \E d \in Devices : DeviceChange(d)
  \/ DeviceChangeDone
  \/ \E e \in StickPositions : handleLeftStickMove(e)
  \/ handleLeftStickStop
  \/ \E e \in StickPositions : handleRightStickMove(e)
  \/ handleRightStickStop
  \/ \E body \in Bodies : onCollideBegin(body)
  \/ \E body \in Bodies : onCollideEnd(body)
  \/ \E val \in BOOLEAN : autoBalanceOnChange(val)
  \/ \E val \in BOOLEAN : droneCameraOnChange(val)
  \/ hudPoll

\* World heights of the body in the whole scene: on the ground, just off it.
SceneBodyHeights == { 2000, 2104 }

SceneFrame ==
  /\ frames < MaxSceneFrames
  /\ \E keys \in KeySets, y \in SceneBodyHeights :
       FrameLoop(keys, y, << 0, 0 >>)

NextScene == SceneEvents \/ SceneFrame

SpecScene == Init /\ [][NextScene]_vars

\* ------------------------------------------------------------ joysticks only
\* The touch device is the only device: the buffer is written by the
\* joystick callbacks alone.  The sticks report positions with y below
\* the threshold, below 0 and above the threshold.
JoystickPositions == { << -10000, 4321 >>, << 2500, -7000 >>, << -5000, 9500 >> }

JoystickEvents ==
  \/ DeviceChange("TouchDevice")
  \/ DeviceChangeDone
  \/ \E e \in JoystickPositions : handleLeftStickMove(e)
  \/ handleLeftStickStop
  \/ \E e \in JoystickPositions : handleRightStickMove(e)
  \/ handleRightStickStop

JoystickFrame ==
  /\ frames < MaxJoystickFrames
  /\ \E keys \in KeySets, y \in SceneBodyHeights :
       FrameLoop(keys, y, << 0, 0 >>)

NextJoystick == JoystickEvents \/ JoystickFrame

SpecJoystick == Init /\ [][NextJoystick]_vars

\* ------------------------------------------------------------ no callback
\* The control source changes between frames and nobody touches the
\* joysticks: no joystick callback fires.
SwitchEvents ==
  \/ \E d \in SourceDevices : DeviceChange(d)
  \/ DeviceChangeDone

SwitchFrame ==
  /\ frames < MaxSwitchFrames
  /\ \E keys \in KeySets, y \in SceneBodyHeights :
       FrameLoop(keys, y, << 0, 0 >>)

NextSwitch == SwitchEvents \/ SwitchFrame

SpecSwitch == Init /\ [][NextSwitch]_vars

\* ------------------------------------------------------------ no throttle
\* After throttled frames (the lift ref holds the ample lift 2.4 of a full
\* battery, or the 1.915 of an empty one) the keyboard stays the source
\* and KeyW is held on no frame.
DecayKeySets == { k \in KeySets : "KeyW" \notin k }

DecayFrame ==
  /\ frames < MaxDecayFrames
  /\ \E keys \in DecayKeySets, y \in SceneBodyHeights :
       FrameLoop(keys, y, << 0, 0 >>)

NextDecay == DecayFrame

SpecDecay == InitBattery /\ [][NextDecay]_vars

\* ------------------------------------------------------------ useGameStore
\* The variant of the scene in src/unnamed/part_004: its store keeps
\* mutation.battery, its Model reads the controller on every frame.

\* roll.current after "Set roll".
ModelRoll(rolling, rollInput, current) ==
  IF rolling THEN MulDiv(rollInput, ModelMaxRoll, One)
  ELSE IF current > 0 THEN Max(0, current - ModelRollDecay)
  ELSE IF current < 0 THEN Min(0, current + ModelRollDecay)
  ELSE 0

\* pitch.current after "Set pitch".
ModelPitch(pitching, pitchInput, current) ==
  IF pitching THEN MulDiv(pitchInput, ModelMaxPitch, One)
  ELSE IF current < 0 THEN Min(current + ModelPitchDecay, 0)
  ELSE Max(current - ModelPitchDecay, 0)

\* lift.current after "Set lift".
ModelLift(throttling, thrustInput, current) ==
  IF throttling
    THEN clamp(MulDiv(thrustInput, liftRequired, One), liftRequired, 0)
  ELSE Max(0, current - ModelLiftDecay)

\* mutation.battery after "Set lift".
ModelBattery(throttling, battery) ==
  IF throttling THEN battery - ModelDrainStep ELSE battery

\* The effect PhysicsWorld adds to the frame loop, the body at world height
\* y: mutation.lift = |y - spawnPoint.y - height / 2| with two decimals.
PhysicsWorldEffect(y) ==
  ((Abs(y - ModelHeight \div 2) + 50) \div 100) * 100

\* One frame of the variant: the effect, then the Model's useFrame callback
\* while `keys` are held.
ModelUseFrame(keys, y) ==
  LET c == controls(keys)
  IN  /\ gameMutation' =
           [ lift |-> PhysicsWorldEffect(y),
             battery |-> ModelBattery(c.throttling, gameMutation.battery) ]
      /\ modelRefs' =
           [ lift |-> ModelLift(c.throttling, c.thrustYaw.y, modelRefs.lift),
             roll |-> ModelRoll(c.rolling, c.pitchRoll.x, modelRefs.roll),
             pitch |-> ModelPitch(c.pitching, c.pitchRoll.y, modelRefs.pitch),
             yaw |-> c.thrustYaw.x * (-1) ]
      /\ frames' = frames + 1
      /\ UNCHANGED << controlsVars, batteryVars, flightMutation, lift, pitch,
                      roll, yaw, overlapping, frame, streak, sceneVars,
                      reactVars >>

\* The state of the variant after n frames with KeyW held, the body
\* resting on the ground.
GameThrottledState(n) ==
  /\ keyboardActive = FALSE
  /\ joystickActive = FALSE
  /\ pc = "idle"
  /\ controlsMutation = InitControlsMutation
  /\ charging = FALSE
  /\ percentage = FullPercentage
  /\ flightMutation = InitFlightMutation
  /\ lift = 0
  /\ pitch = 0
  /\ roll = 0
  /\ yaw = 0
  /\ overlapping = FALSE
  /\ frame = InitFrame
  /\ frames = 0
  /\ streak = 0
  /\ console = ""
  /\ isActive = FALSE
  /\ rendered = << >>
  /\ panel = Telemetry
  /\ camera = "droneCamera"
  /\ pipRef = "droneCamera"
  /\ listeners = "one"
  /\ calls = "none"
  /\ gameMutation =
       [ lift |-> 0, battery |-> FullPercentage - n * ModelDrainStep ]
  /\ modelRefs =
       [ InitModelRefs EXCEPT !.lift = IF n > 0 THEN liftRequired ELSE 0 ]

\* How many throttled frames the variant's specification starts after:
\* none, and the 10000 that take a full battery to 0.
GameThrottledFrames == { 0, 10000 }

InitGame == \E n \in GameThrottledFrames : GameThrottledState(n)

\* The keys held during a frame of the variant.
GameKeySets ==
  { {}, {"KeyW"}, {"KeyW", "KeyS"}, {"ArrowUp", "ArrowLeft", "KeyD"} }

\* World heights of the variant's body: resting on the ground, up at 0.6146.
GameBodyHeights == { 1100, 6146 }

GameFrame ==
  /\ frames < MaxGameFrames
  /\ \E keys \in GameKeySets, y \in GameBodyHeights : ModelUseFrame(keys, y)

NextGame == GameFrame

SpecGame == InitGame /\ [][NextGame]_vars

\* ------------------------------------------------------------ mounting
\* The scene when React has rendered its components for the first time
\* and is about to commit them: the camera store as created (camera: null),
\* which the SceneRenderer's selector has read; the Drone's render body has
\* added its listener.
InitMount ==
  /\ keyboardActive = FALSE
  /\ joystickActive = FALSE
  /\ pc = "layoutEffects"
  /\ controlsMutation = InitControlsMutation
  /\ charging = FALSE
  /\ percentage = FullPercentage
  /\ flightMutation = InitFlightMutation
  /\ lift = 0
  /\ pitch = 0
  /\ roll = 0
  /\ yaw = 0
  /\ overlapping = FALSE
  /\ frame = InitFrame
  /\ frames = 0
  /\ streak = 0
  /\ console = ""
  /\ isActive = FALSE
  /\ rendered = << >>
  /\ panel = Telemetry
  /\ camera = "null"
  /\ pipRef = "null"
  /\ listeners = "one"
  /\ calls = "none"
  /\ gameMutation = InitGameMutation
  /\ modelRefs = InitModelRefs

\* The commit runs the layout effects: the useFrame subscriptions, and the
\* Drone's useLayoutEffect, which sets the camera store.
DroneCommit ==
  /\ pc = "layoutEffects"
  /\ useLayoutEffect
  /\ pc' = "render"
  /\ UNCHANGED << keyboardActive, joystickActive, controlsMutation,
                  batteryVars, droneVars, overlapping, sceneVars, pipRef,
                  listeners, calls, gameVars >>

\* The camera store having been set, the SceneRenderer renders again:
\* pipRef = useDroneCameraStore((state) => state.camera).
SceneRendererRender ==
  /\ pc = "render"
  /\ pipRef' = camera
  /\ pc' = "idle"
  /\ UNCHANGED << keyboardActive, joystickActive, controlsMutation,
                  batteryVars, droneVars, overlapping, sceneVars, camera,
                  listeners, calls, gameVars >>

\* The first commit is over.
Mounted == pc \notin { "layoutEffects", "render" }

NextMount ==
  \/ DroneCommit
  \/ SceneRendererRender
  \/ Mounted /\ NextScene

SpecMount == InitMount /\ [][NextMount]_vars

\* ------------------------------------------------------------ properties

\* C1: after any sequence of frames (throttling or not, charging or not)
\* and collision callbacks, the battery percentage is within [0, 100].
BatteryWithinRange ==
  /\ percentage >= 0
  /\ percentage <= 100 * PctOne

\* C1 happens: a throttled frame ran on an empty battery that was not
\* charging, and left it at 0.
BatteryDrainedAtZero ==
  /\ frames > 0
  /\ frame.throttling
  /\ ~charging
  /\ percentage = 0

\* C2: once a device-change event is fully handled, keyboardActive and
\* joystickActive are never both true; the handling of a keyboard or touch
\* event ends with exactly one of them true; and every other step between
\* handled events (another device, a frame, a callback) leaves both as
\* they are, so that exactly one stays true from the first keyboard or
\* touch event on.
ExactlyOneSourceAfterDeviceChange ==
  /\ [](pc = "idle" => ~(keyboardActive /\ joystickActive))
  /\ [][(pc # "idle" /\ pc' = "idle")
         => (keyboardActive' # joystickActive')]_vars
  /\ [][(pc = "idle" /\ pc' = "idle")
         => UNCHANGED << keyboardActive, joystickActive >>]_vars

\* C2 happens: the joystick is the source after the keyboard was (a
\* keyboard frame wrote throttleInput = 1), the events fully handled.
JoystickAfterKeyboard ==
  /\ pc = "idle"
  /\ joystickActive
  /\ ~keyboardActive
  /\ controlsMutation.throttleInput = One

\* C3: keyboardActive and joystickActive are never both true in any store
\* state, the one between the listener's two setter calls included.
NeverBothSourcesActive ==
  ~(keyboardActive /\ joystickActive)

\* C4: charging is true exactly while the drone overlaps the station: it
\* turns true with the station's collision-begin for the DRONE body, false
\* with the collision-end for it, and no frame and no collision with
\* another body changes it.
ChargingIffOverlapping ==
  charging <=> overlapping

\* C4 happens: frames ran while the drone stayed in the station, with
\* another body's collision reported, and charging is still set.
ChargingAfterFrames ==
  /\ charging
  /\ overlapping
  /\ frames = MaxFrames

\* A step of the frame loop.
IsFrameStep == frames' = frames + 1

\* The stored altitudes the frames of this model read.
StoredAltitudes == { parse(Altitude(y), One) : y \in BodyHeights }

\* C5: for the battery percentage a frame computes with, the target lift
\* is non-increasing in the altitude the frame reads, equals the scaled
\* ample lift at altitude 0, and equals the scaled stable lift at every
\* altitude >= maxAltitude.
TargetLiftClampedAtStable ==
  [][IsFrameStep =>
       LET p == Charge(percentage, charging)
           a == flightMutation.altitude
       IN  /\ \A b \in StoredAltitudes :
                 b <= a => ScaledLift(b, p) >= frame'.scaledLift
           /\ a = 0 => frame'.scaledLift = ScaledAmpleLift(p)
           /\ a >= maxAltitude => frame'.scaledLift = ScaledStableLift(p)
    ]_vars

\* C6: a frame that finds autoBalance true and the pitching (rolling) gate
\* inactive computes a pitch (roll) force of magnitude |stored angle| times
\* |correction| = 5 |angle|, of sign opposite to the stored angle, and 0
\* for the angle 0.
BalanceOpposesAngle ==
  [][(IsFrameStep /\ flightMutation.autoBalance) =>
       /\ ~frame'.pitching =>
            /\ Abs(pitch') * One =
                 Abs(flightMutation.pitchAngle) * Abs(pitchCorrection)
            /\ Abs(pitch') = 5 * Abs(flightMutation.pitchAngle)
            /\ flightMutation.pitchAngle > 0 => pitch' < 0
            /\ flightMutation.pitchAngle < 0 => pitch' > 0
            /\ flightMutation.pitchAngle = 0 => pitch' = 0
       /\ ~frame'.rolling =>
            /\ Abs(roll') * One =
                 Abs(flightMutation.rollAngle) * Abs(rollCorrection)
            /\ Abs(roll') = 5 * Abs(flightMutation.rollAngle)
            /\ flightMutation.rollAngle > 0 => roll' < 0
            /\ flightMutation.rollAngle < 0 => roll' > 0
            /\ flightMutation.rollAngle = 0 => roll' = 0
    ]_vars

\* C6 happens: a frame with both gates inactive balanced a tilted drone,
\* pitch and roll forces of opposite signs.
BalancedTiltedDrone ==
  /\ frame.ran
  /\ flightMutation.autoBalance
  /\ ~frame.pitching
  /\ ~frame.rolling
  /\ pitch < 0
  /\ roll > 0

\* C7: a frame that finds autoBalance false and the pitching (rolling) gate
\* inactive computes a pitch (roll) force of exactly 0, whatever the stored
\* angle.
NoBalanceNoForce ==
  [][(IsFrameStep /\ ~flightMutation.autoBalance) =>
       /\ ~frame'.pitching => pitch' = 0
       /\ ~frame'.rolling => roll' = 0
    ]_vars

\* C7 happens: a frame with both gates inactive had nonzero balance forces
\* for the stored angles and left pitch and roll at 0.
UnbalancedTiltedDrone ==
  /\ frame.ran
  /\ ~flightMutation.autoBalance
  /\ ~frame.pitching
  /\ ~frame.rolling
  /\ frame.pitchBalance # 0
  /\ frame.rollBalance # 0
  /\ pitch = 0
  /\ roll = 0

\* One of the 10 consecutive full-throttle frames that start from a full
\* battery at altitude 0.
IsScenarioStep == IsFrameStep /\ streak' \in 1..10

EmptyBatteryNeverLifts ==
  [][(IsFrameStep /\ percentage = 0 /\ frame'.throttling)
       => frame'.appliedLift = 0]_vars

\* C9: a frame that starts with percentage 0 and charging false and is
\* throttled applies a vertical lift of 0, whatever the throttle axis.
EmptyBatteryLiftsOnlyWhenCharging ==
  [][(IsFrameStep /\ percentage = 0 /\ ~charging /\ frame'.throttling)
       => frame'.appliedLift = 0]_vars

\* C9 happens: a throttled frame on the empty battery computed a lift and
\* applied none.
EmptyBatteryFrame ==
  /\ frames = MaxBatteryFrames
  /\ frame.throttling
  /\ percentage = 0
  /\ lift > 0
  /\ frame.appliedLift = 0

\* C10: after a frame whose yawing gate was inactive, with the keyboard,
\* the joystick or no source, the yaw velocity is exactly 0: the computed
\* yaw, the angular velocity set on the body and the yawVelocity published
\* in the flight state, whatever yawInput holds.
NoYawWithoutGate ==
  (frame.ran /\ ~frame.yawing) =>
    /\ yaw = 0
    /\ frame.angularVelocity = 0
    /\ flightMutation.yawVelocity = 0

\* C10 happens: a frame with the yawing gate inactive found a yawInput
\* left in the buffer by an earlier frame and computed a yaw of 0.
NoYawFromStaleInput ==
  /\ frame.ran
  /\ ~frame.yawing
  /\ controlsMutation.yawInput # 0
  /\ yaw = 0

\* C11: in every reachable state flightMutation.liftForce is >= 0,
\* whatever the altitude of the body, the battery percentage and the
\* throttle.
LiftForceNonNegative ==
  flightMutation.liftForce >= 0

\* C12 (as stated): every step that changes a field of flightMutation is a
\* frame.
OnlyFramesWriteFlightState ==
  [][flightMutation' # flightMutation => IsFrameStep]_vars

\* C12: every step that changes flightMutation is a frame, which leaves
\* autoBalance as it is, or changes autoBalance and nothing else (the
\* HUD's autoBalance switch); the HUD's polling changes no field of it.
OnlyFramesAndSwitchWriteFlightState ==
  [][/\ IsFrameStep => flightMutation'.autoBalance = flightMutation.autoBalance
     /\ (flightMutation' # flightMutation /\ ~IsFrameStep) =>
          /\ flightMutation' =
               [ flightMutation EXCEPT !.autoBalance = ~flightMutation.autoBalance ]
          /\ UNCHANGED << controlsVars, batteryVars, lift, pitch, roll, yaw,
                          overlapping, frame, frames, streak, sceneVars >>
    ]_vars

\* C12 happens: after a throttled frame the panel was polled and shows the
\* frame's lift force, and the switch turned autoBalance off.
SwitchedOffAfterPolledFrame ==
  /\ frame.ran
  /\ flightMutation.liftForce > 0
  /\ panel.liftForce = flightMutation.liftForce
  /\ ~flightMutation.autoBalance

\* C14: a device-change event with a device that is neither a keyboard
\* nor a touch device is logged and changes nothing else: keyboardActive
\* and joystickActive stay, and the listener has returned.
UnknownDeviceIgnored ==
  [][(console' # console /\ console' \notin SourceDevices) =>
       /\ pc = "idle"
       /\ pc' = "idle"
       /\ UNCHANGED << keyboardActive, joystickActive, controlsMutation,
                       batteryVars, droneVars, overlapping, pipVars, panel >>
    ]_vars

\* C14 happens: the last device reported is an unknown one, and the
\* keyboard activated before it is still the source.
UnknownDeviceAfterKeyboard ==
  /\ console \notin SourceDevices \cup {""}
  /\ pc = "idle"
  /\ keyboardActive
  /\ ~joystickActive

\* C15: a frame renders the picture-in-picture quad to the screen only if
\* isActive is true at that frame (and then it does), after the render
\* from the drone camera to the frame buffer and after the render of the
\* main camera of the same frame.
PipRenderedLastWhenActive ==
  [][IsFrameStep =>
       /\ (\E i \in DOMAIN rendered' : rendered'[i] = PipRender) <=> isActive
       /\ \A i \in DOMAIN rendered' :
            rendered'[i] = PipRender =>
              /\ \E j \in 1..(i - 1) :
                   rendered'[j] = << "scene", "pipRef", "frameBuffer" >>
              /\ \E j \in 1..(i - 1) :
                   rendered'[j] = << "scene", "camera", "screen" >>
    ]_vars

\* C15 happens: a frame rendered the picture in picture, third.
PipRendered ==
  /\ frames > 0
  /\ Len(rendered) = 3
  /\ rendered[3] = PipRender

\* C19: every step that changes the battery percentage is a frame:
\* collision callbacks, device-change events, joystick callbacks, the
\* HUD's switches and its polling leave it as it is.
OnlyFramesChangePercentage ==
  [][percentage' # percentage => IsFrameStep]_vars

\* C19 happens: after a throttled frame the drone entered the station, the
\* source became the joystick, an unknown device was reported and the
\* panel was polled, and the percentage is the one the frame left.
PercentageKeptAfterFrame ==
  /\ frames = MaxSceneFrames
  /\ frame.throttling
  /\ percentage = 100 * PctOne - DrainStep
  /\ charging
  /\ joystickActive
  /\ console \notin SourceDevices
  /\ panel.battery = percentage

\* C13 (as stated): the uniform a frame writes is clamp(percentage / 100,
\* 0, 1) for the percentage the frame reads.
UniformIsClampedFraction ==
  [][IsFrameStep =>
       frame'.uBatteryPercentage * ((100 * PctOne) \div One)
         = clamp(percentage, 0, 100 * PctOne)]_vars

\* C13: the uniform a frame writes is clamp(parse(percentage / 100), 1, 0)
\* for the percentage the frame starts with: within [0, 1], a multiple of
\* 0.001, and no further than 0.0005 from percentage / 100.
UniformIsRoundedFraction ==
  [][IsFrameStep =>
       /\ frame'.uBatteryPercentage \in 0..One
       /\ frame'.uBatteryPercentage % (One \div 1000) = 0
       /\ Abs(frame'.uBatteryPercentage * ((100 * PctOne) \div One) - percentage)
            <= (100 * PctOne) \div 2000
    ]_vars

\* C13 happens: a frame that started with 99.975 % wrote the uniform 1 and
\* drained the battery to 99.95 %.
UniformRoundedUp ==
  /\ frames = MaxBatteryFrames
  /\ frame.uBatteryPercentage = One
  /\ percentage = 100 * PctOne - 2 * DrainStep

\* C16: a frame whose throttling gate is inactive or that finds the battery
\* empty lowers the lift by 0.02, floored at 0, and does not drain; only a
\* throttled frame with a battery that is not empty sets the lift to the
\* target lift times the throttle input and drains the battery.
LiftDecaysOnEmptyBattery ==
  [][IsFrameStep =>
       LET p == Charge(percentage, charging)
           powered == frame'.throttling /\ p > 0
       IN  /\ powered =>
                /\ lift' = MulDiv(frame'.scaledLift,
                                  controlsMutation'.throttleInput, One)
                /\ percentage' = Max(p - DrainStep, 0)
           /\ ~powered =>
                /\ lift' = Max(0, lift - LiftDecay)
                /\ percentage' = p
    ]_vars

\* C17: a frame interpolates the target lift from the altitude of the body
\* in that frame, the one it stores when it ends.
TargetLiftFromCurrentAltitude ==
  [][IsFrameStep =>
       frame'.scaledLift =
         ScaledLift(flightMutation'.altitude, Charge(percentage, charging))
    ]_vars

\* C18: the angular velocity a frame sets on the body is 0 when the
\* altitude is <= 0.01, whatever the yaw input and the yawing gate; above,
\* it is yawInput * 1.5 when the yawing gate is active and 0 when not.
YawOnlyOffTheGround ==
  [][IsFrameStep =>
       frame'.angularVelocity =
         IF frame'.altitude <= ManouvreAltitude THEN 0
         ELSE IF frame'.yawing
           THEN (controlsMutation'.yawInput * maxYaw) \div One
         ELSE 0
    ]_vars

\* C18 happens: a frame found the body on the ground with the yawing gate
\* active, computed a yaw and set an angular velocity of 0.
NoSpinOnTheGround ==
  /\ frame.ran
  /\ frame.altitude <= ManouvreAltitude
  /\ frame.yawing
  /\ yaw # 0
  /\ frame.angularVelocity = 0

\* C20 (as stated): a frame with charging and throttling nets +0.175
\* whenever percentage + 0.2 <= 100, and never lowers the percentage.
ChargingNeverLowers ==
  [][(IsFrameStep /\ charging /\ frame'.throttling) =>
       /\ percentage + ChargeStep <= 100 * PctOne =>
            percentage' = percentage + ChargeStep - DrainStep
       /\ percentage' >= percentage
    ]_vars

\* C20: a frame with charging and throttling charges (+0.2, capped at 100)
\* and then drains (-0.025): +0.175 net whenever percentage + 0.2 <= 100,
\* and 99.975 otherwise, so that the percentage goes down only from a full
\* battery, by 0.025, and never below 99.975 or where it was.
ChargingNetsAgainstDrain ==
  [][(IsFrameStep /\ charging /\ frame'.throttling) =>
       /\ percentage + ChargeStep <= 100 * PctOne =>
            percentage' = percentage + ChargeStep - DrainStep
       /\ percentage + ChargeStep > 100 * PctOne =>
            percentage' = 100 * PctOne - DrainStep
       /\ percentage' >= Min(percentage, 100 * PctOne - DrainStep)
       /\ percentage' < percentage => percentage = 100 * PctOne
    ]_vars

\* C20 happens: a frame started with 99.775 % (its uniform is 0.998), with
\* charging and throttling, and ended with 99.95 %: 0.175 more.
ChargedWhileThrottling ==
  /\ frame.throttling
  /\ frame.uBatteryPercentage = One - 2 * (One \div 1000)
  /\ percentage = 100 * PctOne - 2 * DrainStep

\* What the lift ref can hold when a frame starts: nothing (no throttled
\* frame yet, or 120 frames ago), or the ample lift of the frame before.
RefLifts == { 0, ampleLift }

\* The force a frame would apply had it found l in the lift ref.
AppliedLiftFrom(l) ==
  AppliedLift(percentage',
              Lift(frame'.throttling, frame'.scaledLift,
                   controlsMutation'.throttleInput, l))

\* C21 (as stated): the lift a frame applies is the same whatever the lift
\* ref holds from earlier frames.
ForceFromInputsOnly ==
  [][IsFrameStep => \A l \in RefLifts : AppliedLiftFrom(l) = frame'.appliedLift
    ]_vars

\* C21: a throttled frame applies a lift that is the same whatever the lift
\* ref holds, computed from the stored altitude and the battery; the torque
\* of an active pitch or roll gate is the input times its maximum, and the
\* angular velocity is the yaw of the input in the buffer, gated by the
\* body's altitude.  An unthrottled frame applies what the lift ref holds
\* from the frame before, less 0.02, and an inactive pitch or roll gate
\* applies the balance force of the angle the frame before stored.
ForceFromInputsAndLastFrame ==
  [][IsFrameStep =>
       /\ frame'.scaledLift =
            ScaledLift(flightMutation.altitude, Charge(percentage, charging))
       /\ frame'.throttling =>
            \A l \in RefLifts : AppliedLiftFrom(l) = frame'.appliedLift
       /\ ~frame'.throttling =>
            frame'.appliedLift =
              IF percentage' > 0 THEN Max(0, lift - LiftDecay) ELSE 0
       /\ frame'.pitching =>
            pitch' = MulDiv(controlsMutation'.pitchInput, maxPitch, One)
       /\ ~frame'.pitching =>
            pitch' = IF flightMutation.autoBalance
                       THEN BalanceForce(maxPitch, flightMutation.pitchAngle,
                                         pitchCorrection)
                     ELSE 0
       /\ frame'.rolling =>
            roll' = MulDiv(controlsMutation'.rollInput, maxRoll, One)
       /\ ~frame'.rolling =>
            roll' = IF flightMutation.autoBalance
                      THEN BalanceForce(maxRoll, flightMutation.rollAngle,
                                        rollCorrection)
                    ELSE 0
       /\ frame'.angularVelocity =
            IF frame'.yawing /\ frame'.altitude > ManouvreAltitude
              THEN MulDiv(controlsMutation'.yawInput, maxYaw, One)
            ELSE 0
    ]_vars

\* C21 happens: an unthrottled frame found the ample lift of the frame
\* before in the lift ref and applied it less 0.02.
LastFramesLiftApplied ==
  /\ frames = MaxBatteryFrames
  /\ ~frame.throttling
  /\ frame.appliedLift = ampleLift - LiftDecay

\* C22 (as stated): no frame writes a field of the shared input buffer.
FramesNeverWriteInputs ==
  [][IsFrameStep => controlsMutation' = controlsMutation]_vars

\* C22: every step that changes a field of the shared input buffer is a
\* frame that finds KEYBOARD as the source, or a joystick callback while
\* JOYSTICK is the source.  A frame with KEYBOARD as the source writes
\* throttleInput (1 or 0 with its throttling gate) and leaves the field of
\* every inactive gate as it is; a frame with another source only reads.
InputsWrittenBySource ==
  [][/\ controlsMutation' # controlsMutation =>
          IF IsFrameStep
            THEN currentControls = KEYBOARD
          ELSE currentControls = JOYSTICK
     /\ (IsFrameStep /\ currentControls = KEYBOARD) =>
          /\ controlsMutation'.throttleInput =
               IF frame'.throttling THEN One ELSE 0
          /\ ~frame'.pitching =>
               controlsMutation'.pitchInput = controlsMutation.pitchInput
          /\ ~frame'.rolling =>
               controlsMutation'.rollInput = controlsMutation.rollInput
          /\ ~frame'.yawing =>
               controlsMutation'.yawInput = controlsMutation.yawInput
    ]_vars

\* C22 happens: the joystick callbacks wrote the buffer, the keyboard
\* became the source and a frame overwrote throttleInput and yawInput and
\* left the right stick's pitchInput and rollInput.
KeyboardFrameWroteInputs ==
  /\ frame.ran
  /\ keyboardActive
  /\ controlsMutation =
       [ pitchInput |-> 4321, rollInput |-> -10000, throttleInput |-> One,
         yawInput |-> -One ]

\* C23: the camera store holds the drone's camera from the commit of the
\* drone's first render on, set once and before any frame; the
\* SceneRenderer has read it when the commit is over; so every frame's
\* first render pass finds the camera behind pipRef and throws nothing.
CameraRegisteredBeforeFrames ==
  /\ [](Mounted => (camera = "droneCamera" /\ pipRef = "droneCamera"))
  /\ [][camera' # camera =>
         (camera = "null" /\ camera' = "droneCamera" /\ ~frame.ran)]_vars
  /\ [][IsFrameStep =>
         /\ pipRef = "droneCamera"
         /\ rendered' # TypeError
         /\ rendered'[1] = << "scene", "pipRef", "frameBuffer" >>
       ]_vars

\* C23 happens: the first frame after the commit rendered the scene from
\* the drone's camera.
FirstFrameRenderedFromDroneCamera ==
  /\ frames = 1
  /\ camera = "droneCamera"
  /\ pipRef = "droneCamera"
  /\ rendered = Rendering(isActive)

\* C24: the battery value of every variant of the scene, the
\* mutation.battery of useGameStore included, is within [0, 100] after any
\* number of throttled frames.
EveryBatteryWithinRange ==
  /\ percentage >= 0
  /\ percentage <= 100 * PctOne
  /\ gameMutation.battery >= 0
  /\ gameMutation.battery <= 100 * PctOne

\* C25: on every frame whose throttling gate is inactive the lift goes
\* down by 0.02, or to 0 from less than 0.02, and stays at 0 once there;
\* it is never negative; and from a lift of at most ampleLift 2.4 it is 0
\* after 120 such frames in a row, and on every frame after.
LiftDecaysToZero ==
  /\ [](lift >= 0 /\ lift <= ampleLift /\ flightMutation.liftForce >= 0)
  /\ [][(IsFrameStep /\ ~frame'.throttling) =>
         /\ lift >= LiftDecay => lift' = lift - LiftDecay
         /\ lift < LiftDecay => lift' = 0
       ]_vars
  /\ []((frames >= 120 /\ ~frame.throttling) => lift = 0)

\* C25 happens: 120 frames after the throttled frame that set the lift to
\* the ample lift 2.4 of a full battery, none of them throttled, the lift
\* is 0.
LiftDecayedFromAmple ==
  /\ frames = 120
  /\ ~frame.throttling
  /\ percentage = 100 * PctOne - DrainStep
  /\ lift = 0
  /\ frame.appliedLift = 0

\* C26: no joystick callback having fired, a frame that finds JOYSTICK as
\* the source finds its four gates inactive, after keyboard frames too.
NoGatesBeforeJoystickCallback ==
  [][(IsFrameStep /\ currentControls = JOYSTICK) =>
       /\ ~frame'.throttling
       /\ ~frame'.pitching
       /\ ~frame'.rolling
       /\ ~frame'.yawing
    ]_vars

\* C27: a frame that leaves the battery at 0 (the percentage when the
\* force is applied) applies a local force of zero: no vertical lift, no
\* forward momentum.
NoForceOnEmptyBattery ==
  [][(IsFrameStep /\ percentage' = 0) =>
       /\ frame'.appliedLift = 0
       /\ frame'.forwardMomentum = 0
    ]_vars

\* C28: the yawVelocity a frame writes to the flight state is the y
\* angular velocity it sets on the body, on the ground too.
YawVelocityIsAngularVelocity ==
  [][IsFrameStep => flightMutation'.yawVelocity = frame'.angularVelocity]_vars

\* A step of handleLeftStickMove(e) that changed the buffer: not a frame,
\* the right stick's fields kept, yawInput now -e.x (no two positions share
\* their x, and none has x = 0).
IsLeftStickMove(e) ==
  /\ ~IsFrameStep
  /\ controlsMutation' # controlsMutation
  /\ controlsMutation'.pitchInput = controlsMutation.pitchInput
  /\ controlsMutation'.rollInput = controlsMutation.rollInput
  /\ controlsMutation'.yawInput = e[1] * (-1)

\* C29: with the joystick callbacks as the only writers, throttleInput is
\* 0 or at least 0.9 in every state; a left-stick move with e.y >= 0 sets
\* it to max(e.y, 0.9), a left-stick move with e.y < 0 leaves it as it is;
\* and a step that takes it back to 0 is a left-stick stop, which takes
\* yawInput to 0 too and leaves the right stick's fields.
ThrottleZeroOrAboveThreshold ==
  /\ [](\/ controlsMutation.throttleInput = 0
        \/ controlsMutation.throttleInput >= TODO_THRESHOLD)
  /\ [][\A e \in JoystickPositions :
          IsLeftStickMove(e) =>
            controlsMutation'.throttleInput =
              IF e[2] >= 0 THEN Max(e[2], TODO_THRESHOLD)
              ELSE controlsMutation.throttleInput
       ]_vars
  /\ [][(controlsMutation.throttleInput # 0
           /\ controlsMutation'.throttleInput = 0) =>
          /\ ~IsFrameStep
          /\ controlsMutation'.yawInput = 0
          /\ controlsMutation'.pitchInput = controlsMutation.pitchInput
          /\ controlsMutation'.rollInput = controlsMutation.rollInput
       ]_vars

\* C29 happens: a left-stick move with e.y = 0.95 set throttleInput to
\* 0.95, and the left-stick move with e.y = -0.7 after it left it there.
ThrottleKeptBelowZero ==
  /\ joystickActive
  /\ controlsMutation.yawInput = -2500
  /\ controlsMutation.throttleInput = 9500

\* C30: the Drone has one device-change listener on the controller in
\* every state, however often it rendered, and a device-change event
\* never makes more than one activateKeyboard / activateJoystick call.
AtMostOneListener ==
  /\ listeners = "one"
  /\ calls # "several"

====
